---------------------------- MODULE Spec2Model ----------------------------
(***************************************************************************)
(* A model of the rtmidi-rs wrapper: the Input and Output handles          *)
(* (src/midi_in.rs, src/midi_out.rs), the shared port operations           *)
(* (src/midi.rs), the error-status bridge (src/error.rs) and the callback  *)
(* trampoline (src/ffi.rs).                                                *)
(*                                                                         *)
(* The native RtMidi library is outside the repository.  Each native call  *)
(* is modelled at its call site: what the wrapper passes, what it reads    *)
(* back, and a nondeterministic outcome for what the library may answer    *)
(* (success or failure, any message pointer, status left or refreshed).    *)
(*                                                                         *)
(* The wrapper keeps no state outside a handle: every operation touches    *)
(* only the instance behind self.0 and the closure it boxes.  The model    *)
(* therefore follows one native instance from its constructor to the drop  *)
(* of its handle; the instance is an Input or an Output one.               *)
(***************************************************************************)
EXTENDS Integers, Sequences, FiniteSets, TLC

(* ------------------------------ bounds -------------------------------- *)
\* callback contexts ever boxed by set_callback
MaxCtx == 2
\* the queue_size_limit an Input handle is constructed with
MaxQueue == 1

\* Vec::with_capacity(1024) in RtMidiIn::message
VecCapacity == 1024
\* slice::from_raw_parts(data, 3) in the 3.x trampoline
FixedLen == 3

Ctxs == 1..MaxCtx

(* ------------------------------ strings ------------------------------- *)
\* A native pointer to a NUL-terminated string: null, or the bytes before
\* the terminator.
NullPtr == [null |-> TRUE, bytes |-> <<>>]
Ptr(b) == [null |-> FALSE, bytes |-> b]

\* caller-supplied client / port names: "T" and "T\0T"
Names == {<<84>>, <<84, 0, 84>>}
\* message pointers the native status record may carry after a failure:
\* null, "e", and the byte 0xFF (never valid UTF-8)
ErrMsgs == {NullPtr, Ptr(<<101>>), Ptr(<<255>>)}
\* name pointers rtmidi_get_port_name may return: null, "", "e", 0xFF
NamePtrs == {NullPtr, Ptr(<<>>), Ptr(<<101>>), Ptr(<<255>>)}
\* and what it may return when it reports a failure
FailedNamePtrs == {NullPtr, Ptr(<<>>)}
\* MIDI messages the device may deliver: program change, note on
Messages == {<<192, 5>>, <<144, 64, 90>>}
\* bytes that may follow a short message in the native buffer
FillBytes == {0, 7}
\* byte sequences handed to RtMidiOut::message
\* A usize in two half-words, hi * 2^16 + lo (hi itself may exceed 2^16).
Half == 65536
Usize(hi, lo) == [hi |-> hi, lo |-> lo]
\* A &[u8] with the bytes b, and one of Usize(hi, 0) bytes that starts with b.
Slice(b) == [head |-> b, len |-> Usize(0, Len(b))]
LongSlice(b, hi) == [head |-> b, len |-> Usize(hi, 0)]
\* messages given to RtMidiOut::message: empty, a program change, and
\* system-exclusive dumps of 2^31 and of 2^32 bytes
OutMessages == {Slice(<<>>), Slice(<<192, 5>>),
                LongSlice(<<240, 1>>, Half \div 2), LongSlice(<<240, 1>>, Half)}
PortNumbers == {9999}
AbiVersions == {"v4_0_0", "v3_0_0"}

HasNul(s) == \E k \in 1..Len(s) : s[k] = 0

\* CString::new: an interior NUL byte is an error, otherwise the bytes with
\* a terminator appended.
CStringNewNoCheck(s) == [ok |-> TRUE, bytes |-> Append(s, 0)]
CStringNew(s) ==
    IF HasNul(s) THEN [ok |-> FALSE, bytes |-> <<>>]
                 ELSE [ok |-> TRUE, bytes |-> Append(s, 0)]

\* CStr::to_str: UTF-8 validation (one- and two-byte forms; the model's
\* bytes hold no lead byte of a longer form).
RECURSIVE Utf8Valid(_)
Utf8Valid(b) ==
    IF b = <<>> THEN TRUE
    ELSE IF b[1] < 128 THEN Utf8Valid(Tail(b))
    ELSE IF b[1] \in 194..223 /\ Len(b) >= 2 /\ b[2] \in 128..191
         THEN Utf8Valid(Tail(Tail(b)))
    ELSE FALSE

\* "Invalid error" and "Unknown error" as bytes
InvalidError == <<73, 110, 118, 97, 108, 105, 100, 32, 101, 114, 114, 111, 114>>
UnknownError == <<85, 110, 107, 110, 111, 119, 110, 32, 101, 114, 114, 111, 114>>

(* ------------------------------ results ------------------------------- *)
\* Result<_, RtMidiError>: kind is "Ok" or the RtMidiError variant; text is
\* the String of RtMidiError::Error.
OkRes == [kind |-> "Ok", text |-> <<>>]
ErrRes(t) == [kind |-> "Error", text |-> t]
Utf8Res == [kind |-> "Utf8", text |-> <<>>]
NullStringRes == [kind |-> "NullString", text |-> <<>>]
NullPointerRes == [kind |-> "NullPointer", text |-> <<>>]

\* impl From<ffi::RtMidiWrapper> for Result<(), RtMidiError>
FromWrapperSwapped(e) ==
    IF e.ok THEN OkRes
    ELSE IF e.msg.null THEN ErrRes(UnknownError)
    ELSE IF Utf8Valid(e.msg.bytes) THEN ErrRes(e.msg.bytes)
    ELSE ErrRes(InvalidError)
FromWrapper(e) ==
    IF e.ok THEN OkRes
    ELSE IF e.msg.null THEN ErrRes(InvalidError)
    ELSE IF Utf8Valid(e.msg.bytes) THEN ErrRes(e.msg.bytes)
    ELSE ErrRes(UnknownError)

(* --------------------------- native library --------------------------- *)
\* What a native call may answer: failure with a message written to the
\* status record, or success, which leaves the record as it was or refreshes
\* it, as the library chooses.
Outcomes == {[fail |-> FALSE, refresh |-> r, msg |-> Ptr(<<>>)] : r \in BOOLEAN}
              \cup {[fail |-> TRUE, refresh |-> FALSE, msg |-> m] : m \in ErrMsgs}

OkStatus == [ok |-> TRUE, msg |-> Ptr(<<>>)]

\* Refreshing a record that is ok changes nothing: one success is enough.
OutcomesOn(w) == {o \in Outcomes : o.refresh => ~w.ok}

\* The status record after a native call.
StatusAfter(w, o) ==
    IF o.fail THEN [ok |-> FALSE, msg |-> o.msg]
    ELSE IF o.refresh THEN OkStatus
    ELSE w


(* ---------------------------- API specifier -------------------------- *)
\* enum RtMidiApi and the native constant each variant is declared with
RtMidiApis == {"Unspecified", "MacOSXCore", "LinuxALSA", "UnixJack",
               "WindowsMM", "RtMidiDummy"}

\* `api as u32`
ApiAsU32(a) ==
    CASE a = "Unspecified" -> 0
      [] a = "MacOSXCore" -> 1
      [] a = "LinuxALSA" -> 2
      [] a = "UnixJack" -> 3
      [] a = "WindowsMM" -> 4
      [] a = "RtMidiDummy" -> 5

\* impl From<u32> for RtMidiApi; any other value panics
FromU32Shifted(api) ==
    CASE api = 0 -> "Unspecified"
      [] api = 1 -> "Unspecified"
      [] api = 2 -> "MacOSXCore"
      [] api = 3 -> "LinuxALSA"
      [] api = 4 -> "UnixJack"
      [] api = 5 -> "WindowsMM"
      [] OTHER -> "panic"
FromU32(api) ==
    CASE api = 0 -> "Unspecified"
      [] api = 1 -> "MacOSXCore"
      [] api = 2 -> "LinuxALSA"
      [] api = 3 -> "UnixJack"
      [] api = 4 -> "WindowsMM"
      [] api = 5 -> "RtMidiDummy"
      [] OTHER -> "panic"

\* the api argument of the constructors: the default, and a named backend
RequestedApis == {"Unspecified", "LinuxALSA"}

\* The backend the library builds an instance with: the one asked for, or
\* for Unspecified the first compiled one ("the default order of use is
\* ALSA, JACK (Linux)").
NativeChosenApi(api) == IF api = 0 THEN 2 ELSE api

(* ------------------------------- state -------------------------------- *)
VARIABLES
    inst,        \* the native instance (RtMidiWrapper and what it points to)
    handle,      \* the RtMidiIn / RtMidiOut value wrapping the instance
    ctx,         \* the closures boxed by create_callback
    flight,      \* the delivery the native thread is making
    cancelled,   \* contexts whose registration a cancel_callback that returned Ok ended
    freeCount,   \* how often rtmidi_in_free / rtmidi_out_free ran on the instance
    last         \* the step that produced this state: operation, inputs, result

vars == <<inst, handle, ctx, flight, cancelled, freeCount, last>>

Blank == [kind |-> "none", life |-> "unalloc", status |-> OkStatus,
          open |-> FALSE, cb |-> 0, queue |-> <<>>, limit |-> 0, api |-> 0]

Idle == [busy |-> FALSE, ctx |-> 0, ts |-> 0, data |-> <<>>, late |-> FALSE]

NoCtx == [alloc |-> "unalloc", closure |-> 0]

NoLast == [op |-> "init", res |-> OkRes, calls |-> <<>>,
           nul |-> FALSE, nativeFail |-> FALSE, priorOk |-> TRUE,
           dangling |-> FALSE, wasActive |-> FALSE, ctx |-> 0,
           ctxAlloc |-> "unalloc", hadPending |-> FALSE, pending |-> <<>>,
           qlen |-> 0, bytes |-> <<>>, ts |-> 0, late |-> FALSE,
           sent |-> Slice(<<>>), sentLen |-> 0, count |-> 0, abi |-> "none",
           ptr |-> NullPtr, api |-> "none", buf |-> <<>>, invoked |-> <<>>]

Timestamps == {1}
PortCounts == {0, 1}

Init ==
    /\ inst = Blank
    /\ handle = "none"
    /\ ctx = [c \in Ctxs |-> NoCtx]
    /\ flight = Idle
    /\ cancelled = [c \in Ctxs |-> FALSE]
    /\ freeCount = 0
    /\ last = NoLast

\* &self: the operation is called on a handle that exists and was not dropped
Held == handle = "held"
HeldIn == Held /\ inst.kind = "in"
HeldOut == Held /\ inst.kind = "out"

\* the record of an operation on the handle, before its result is known
Rec(op) == [NoLast EXCEPT !.op = op,
                          !.dangling = inst.life # "live"]

(* ---------------------------- constructors ---------------------------- *)
\* rtmidi_in_create / rtmidi_out_create: a wrapper record is always
\* allocated (new reads the status through the returned pointer); its status
\* says whether the instance behind it was built.
NativeCreate(kind, api, limit, o) ==
    [Blank EXCEPT !.kind = kind, !.life = "live", !.limit = limit,
                  !.api = IF o.fail THEN 0 ELSE NativeChosenApi(api),
                  !.status = IF o.fail THEN [ok |-> FALSE, msg |-> o.msg]
                             ELSE OkStatus]

\* RtMidiIn::new / RtMidiOut::new
New(op, kind, fn, api, name, limit) ==
    /\ inst.life = "unalloc"
    /\ LET cs == CStringNew(name)
           base == [NoLast EXCEPT !.op = op, !.nul = HasNul(name)]
       IN IF ~cs.ok
          THEN /\ last' = [base EXCEPT !.res = NullStringRes]
               /\ UNCHANGED <<inst, handle>>
          ELSE \E o \in OutcomesOn(OkStatus) :
               LET w == NativeCreate(kind, ApiAsU32(api), limit, o)
                   res == FromWrapper(w.status)
               IN /\ inst' = w
                  /\ handle' = IF res.kind = "Ok" THEN "held" ELSE handle
                  /\ last' = [base EXCEPT !.res = res, !.calls = <<fn>>,
                                          !.nativeFail = o.fail]
    /\ UNCHANGED <<ctx, flight, cancelled, freeCount>>

NewIn(api, name, limit) ==
    New("in_new", "in", "rtmidi_in_create", api, name, limit)
NewOut(api, name) == New("out_new", "out", "rtmidi_out_create", api, name, 0)

\* rtmidi_in_get_current_api / rtmidi_out_get_current_api: the backend the
\* instance was built with
NativeGetCurrentApi(w) == w.api

\* RtMidiIn::current_api / RtMidiOut::current_api
current_api ==
    /\ Held
    /\ last' = [Rec("current_api") EXCEPT
                  !.api = FromU32(NativeGetCurrentApi(inst)),
                  !.calls = <<IF inst.kind = "in"
                              THEN "rtmidi_in_get_current_api"
                              ELSE "rtmidi_out_get_current_api">>]
    /\ UNCHANGED <<inst, handle, ctx, flight, cancelled, freeCount>>

\* impl Drop for RtMidiIn / RtMidiOut.  The native destructor stops the
\* delivery thread, so a delivery in progress ends before the free returns.
Drop ==
    /\ Held
    /\ ~flight.busy
    /\ inst' = [Blank EXCEPT !.kind = inst.kind, !.life = "freed"]
    /\ handle' = "dropped"
    /\ freeCount' = freeCount + 1
    /\ last' = [Rec("drop") EXCEPT
                  !.calls = <<IF inst.kind = "in" THEN "rtmidi_in_free"
                                                   ELSE "rtmidi_out_free">>]
    /\ UNCHANGED <<ctx, flight, cancelled>>

(* --------------------------- port operations -------------------------- *)
NativeOpenPort(w, o) ==
    [w EXCEPT !.status = StatusAfter(@, o),
              !.open = IF o.fail THEN @ ELSE TRUE]

NativeClosePort(w, o) ==
    [w EXCEPT !.status = StatusAfter(@, o),
              !.open = IF o.fail THEN @ ELSE FALSE]

NativeStatusOnly(w, o) == [w EXCEPT !.status = StatusAfter(@, o)]

\* midi::open_port and midi::open_virtual_port
OpenWith(op, fn, name) ==
    /\ Held
    /\ LET cs == CStringNew(name)
           base == [Rec(op) EXCEPT !.nul = HasNul(name)]
       IN IF ~cs.ok
          THEN /\ last' = [base EXCEPT !.res = NullStringRes]
               /\ UNCHANGED inst
          ELSE \E o \in OutcomesOn(inst.status) :
               /\ inst' = NativeOpenPort(inst, o)
               /\ last' = [base EXCEPT !.res = FromWrapper(inst'.status),
                                       !.calls = <<fn>>, !.nativeFail = o.fail]
    /\ UNCHANGED <<handle, ctx, flight, cancelled, freeCount>>

open_port(n, name) ==
    n \in PortNumbers /\ OpenWith("open_port", "rtmidi_open_port", name)

open_virtual_port(name) ==
    OpenWith("open_virtual_port", "rtmidi_open_virtual_port", name)

\* midi::close_port
close_port ==
    /\ Held
    /\ \E o \in OutcomesOn(inst.status) :
          /\ inst' = NativeClosePort(inst, o)
          /\ last' = [Rec("close_port") EXCEPT
                        !.res = FromWrapper(inst'.status),
                        !.calls = <<"rtmidi_close_port">>, !.nativeFail = o.fail]
    /\ UNCHANGED <<handle, ctx, flight, cancelled, freeCount>>

\* midi::port_count
port_count ==
    /\ Held
    /\ \E o \in OutcomesOn(inst.status) :
       \E n \in IF o.fail THEN {0} ELSE PortCounts :
          /\ inst' = NativeStatusOnly(inst, o)
          /\ LET res == FromWrapper(inst'.status)
             IN last' = [Rec("port_count") EXCEPT
                           !.res = res, !.count = IF res.kind = "Ok" THEN n ELSE 0,
                           !.calls = <<"rtmidi_get_port_count">>,
                           !.nativeFail = o.fail]
    /\ UNCHANGED <<handle, ctx, flight, cancelled, freeCount>>

\* the match of midi::port_name on the status and the returned pointer
PortNameResultPointerFirst(status, p) ==
    IF p.null THEN NullPointerRes
    ELSE IF FromWrapper(status).kind # "Ok" THEN FromWrapper(status)
    ELSE IF Utf8Valid(p.bytes) THEN [kind |-> "Ok", text |-> p.bytes]
    ELSE Utf8Res
PortNameResult(status, p) ==
    LET b == FromWrapper(status)
    IN IF b.kind # "Ok" THEN b
       ELSE IF p.null THEN NullPointerRes
       ELSE IF Utf8Valid(p.bytes) THEN [kind |-> "Ok", text |-> p.bytes]
       ELSE Utf8Res

\* midi::port_name
port_name(n) ==
    /\ Held
    /\ n \in PortNumbers
    /\ \E o \in OutcomesOn(inst.status) :
       \E p \in IF o.fail THEN FailedNamePtrs ELSE NamePtrs :
          /\ inst' = NativeStatusOnly(inst, o)
          /\ last' = [Rec("port_name") EXCEPT
                        !.res = PortNameResult(inst'.status, p),
                        !.ptr = p,
                        !.calls = <<"rtmidi_get_port_name">>,
                        !.nativeFail = o.fail]
    /\ UNCHANGED <<handle, ctx, flight, cancelled, freeCount>>

(* ------------------------------ callbacks ----------------------------- *)
\* ffi::create_callback: Box::into_raw(Box::new(f)), a live allocation that
\* only Box::from_raw would release.
CreateCallbackDropped(f) == [alloc |-> "freed", closure |-> f]
CreateCallback(f) == [alloc |-> "live", closure |-> f]

\* Box::new returns a fresh allocation
NextCtx(c) == ctx[c].alloc = "unalloc" /\ \A d \in 1..(c - 1) : ctx[d].alloc # "unalloc"

\* rtmidi_in_set_callback: on success the instance's one callback slot holds
\* the context; with a callback already set the library keeps the old one
\* or takes the new one.
NativeSetCallback(w, c, o, replace) ==
    [w EXCEPT !.status = StatusAfter(@, o),
              !.cb = IF o.fail THEN @
                     ELSE IF @ = 0 \/ replace THEN c ELSE @]

\* rtmidi_in_cancel_callback: on success the slot is empty.
NativeCancelCallbackKeep(w, o) ==
    [w EXCEPT !.status = StatusAfter(@, o)]
NativeCancelCallback(w, o) ==
    [w EXCEPT !.status = StatusAfter(@, o),
              !.cb = IF o.fail THEN @ ELSE 0]

\* RtMidiIn::set_callback; the closure passed is the c-th one the program makes
set_callback(c) ==
    /\ HeldIn
    /\ NextCtx(c)
    /\ ctx' = [ctx EXCEPT ![c] = CreateCallback(c)]
    /\ \E o \in OutcomesOn(inst.status) :
       \E replace \in IF inst.cb # 0 /\ ~o.fail THEN BOOLEAN ELSE {FALSE} :
          /\ inst' = NativeSetCallback(inst, c, o, replace)
          /\ last' = [Rec("set_callback") EXCEPT
                        !.res = FromWrapper(inst'.status),
                        !.calls = <<"rtmidi_in_set_callback">>,
                        !.nativeFail = o.fail,
                        !.wasActive = inst.cb # 0,
                        !.ctx = c]
    /\ UNCHANGED <<handle, flight, cancelled, freeCount>>

\* RtMidiIn::cancel_callback
cancel_callback ==
    /\ HeldIn
    /\ \E o \in OutcomesOn(inst.status) :
          /\ inst' = NativeCancelCallback(inst, o)
          /\ LET res == FromWrapper(inst'.status)
                 c == inst.cb
             IN /\ last' = [Rec("cancel_callback") EXCEPT
                              !.res = res,
                              !.calls = <<"rtmidi_in_cancel_callback">>,
                              !.nativeFail = o.fail,
                              !.wasActive = c # 0,
                              !.ctx = c]
                /\ cancelled' = IF c # 0 /\ res.kind = "Ok"
                                THEN [cancelled EXCEPT ![c] = TRUE]
                                ELSE cancelled
    /\ UNCHANGED <<handle, ctx, flight, freeCount>>

\* RtMidiIn::ignore_types
ignore_types(sysex, time, sense) ==
    /\ HeldIn
    /\ {sysex, time, sense} \subseteq BOOLEAN
    /\ \E o \in OutcomesOn(inst.status) :
          /\ inst' = NativeStatusOnly(inst, o)
          /\ last' = [Rec("ignore_types") EXCEPT
                        !.res = FromWrapper(inst'.status),
                        !.calls = <<"rtmidi_in_ignore_types">>,
                        !.nativeFail = o.fail]
    /\ UNCHANGED <<handle, ctx, flight, cancelled, freeCount>>

(* ------------------------------ messages ------------------------------ *)
\* Vec::with_capacity(n): no elements, room for n
VecZeroed(n) == [len |-> n, cap |-> n]
VecWithCapacity(n) == [len |-> 0, cap |-> n]

\* the elements of a Vec whose buffer holds buf: its first len bytes
VecBytes(v, buf) == [k \in 1..v.len |-> IF k <= Len(buf) THEN buf[k] ELSE 0]

\* rtmidi_in_get_message: on success the head of the queue is taken
NativeGetMessage(w, o) ==
    [w EXCEPT !.status = StatusAfter(@, o),
              !.queue = IF o.fail \/ @ = <<>> THEN @ ELSE Tail(@)]

\* RtMidiIn::message.  The native call writes the message bytes through ptr
\* (or not: `copied`) and its size into `length`; neither changes the Vec's
\* own length, and `length` is not read again.
in_message ==
    /\ HeldIn
    /\ \E o \in OutcomesOn(inst.status) :
       \E copied \in IF ~o.fail /\ inst.queue # <<>> THEN BOOLEAN ELSE {FALSE} :
       LET q == inst.queue
           got == ~o.fail /\ q # <<>>
           message == VecWithCapacity(VecCapacity)
           buf == IF got /\ copied /\ Len(q[1].data) <= message.cap
                  THEN q[1].data ELSE <<>>
           timestamp == IF got THEN q[1].ts ELSE 0
           w == NativeGetMessage(inst, o)
           res == FromWrapper(w.status)
       IN /\ inst' = w
          /\ last' = [Rec("in_message") EXCEPT
                        !.res = res,
                        !.priorOk = inst.status.ok,
                        !.calls = <<"rtmidi_in_get_message">>,
                        !.nativeFail = o.fail,
                        !.hadPending = q # <<>>,
                        !.pending = IF q # <<>> THEN q[1].data ELSE <<>>,
                        !.qlen = Len(q),
                        !.ts = IF res.kind = "Ok" THEN timestamp ELSE 0,
                        !.bytes = IF res.kind = "Ok"
                                  THEN VecBytes(message, buf) ELSE <<>>]
    /\ UNCHANGED <<handle, ctx, flight, cancelled, freeCount>>

\* i32::MAX
MaxI32 == 2147483647
\* `length as i32`: the low 32 bits of the usize, read as two's complement
ToI32(n) ==
    LET h == n.hi % Half
    IN IF h < Half \div 2 THEN h * Half + n.lo ELSE (h - Half) * Half + n.lo

\* the bytes rtmidi_out_send_message is given: the first `length` bytes at
\* `message` (of which the model knows the head)
NativeSendBytes(buf, length) ==
    [head |-> SubSeq(buf.head, 1, IF length < Len(buf.head) THEN length
                                                             ELSE Len(buf.head)),
     len |-> Usize(length \div Half, length % Half)]

\* rtmidi_out_send_message
NativeSendMessage(w, o) == [w EXCEPT !.status = StatusAfter(@, o)]

\* RtMidiOut::message
out_message(message) ==
    /\ HeldOut
    /\ \E o \in OutcomesOn(inst.status) :
          /\ inst' = NativeSendMessage(inst, o)
          /\ last' = [Rec("out_message") EXCEPT
                        !.res = FromWrapper(inst'.status),
                        !.calls = <<"rtmidi_out_send_message">>,
                        !.nativeFail = o.fail,
                        !.sent = message,
                        !.sentLen = ToI32(message.len)]
    /\ UNCHANGED <<handle, ctx, flight, cancelled, freeCount>>

(* ----------------------- native delivery thread ----------------------- *)
\* A message reaches an open input: the library reads the callback slot and
\* either starts a callback delivery or queues the message (dropping it when
\* the queue is full).
Arrive(ts, m) ==
    /\ inst.life = "live" /\ inst.kind = "in" /\ inst.open
    /\ ~flight.busy
    /\ IF inst.cb # 0
       THEN /\ flight' = [busy |-> TRUE, ctx |-> inst.cb, ts |-> ts,
                          data |-> m, late |-> cancelled[inst.cb]]
            /\ UNCHANGED inst
       ELSE /\ inst' = [inst EXCEPT !.queue =
                           IF Len(@) < inst.limit
                           THEN Append(@, [ts |-> ts, data |-> m]) ELSE @]
            /\ UNCHANGED flight
    /\ last' = [NoLast EXCEPT !.op = "arrive"]
    /\ UNCHANGED <<handle, ctx, cancelled, freeCount>>

\* the native buffer a message lies in: its bytes, then whatever follows
NativeBuffer(m, g) == m \o [k \in 1..FixedLen |-> g]

\* ffi::create_callback's trampoline: slice::from_raw_parts(data, size) in the
\* 4.x shape, slice::from_raw_parts(data, 3) in the 3.x shape, then the call
\* of the closure behind `func`.  The value is the calls it makes.
TrampolineFixedLen(v, timestamp, data, size, func) ==
    <<[ctx |-> func, ts |-> timestamp, bytes |-> SubSeq(data, 1, FixedLen)]>>
Trampoline(v, timestamp, data, size, func) ==
    <<[ctx |-> func, ts |-> timestamp,
       bytes |-> SubSeq(data, 1, IF v = "v4_0_0" THEN size ELSE FixedLen)]>>

\* the library calls the trampoline for the delivery in progress; v is the
\* shape build.rs selected (rtmidi_version), g what follows the message in
\* the native buffer
Invoke(v) ==
    /\ flight.busy
    /\ \E g \in IF v = "v3_0_0" /\ Len(flight.data) < FixedLen
                THEN FillBytes ELSE {0} :
       LET f == flight
           data == NativeBuffer(f.data, g)
           invoked == Trampoline(v, f.ts, data, Len(f.data), f.ctx)
       IN last' = [NoLast EXCEPT !.op = "invoke", !.abi = v,
                                 !.ctx = f.ctx, !.ts = f.ts,
                                 !.buf = data, !.pending = f.data,
                                 !.invoked = invoked,
                                 !.late = f.late,
                                 !.ctxAlloc = ctx[f.ctx].alloc]
    /\ flight' = Idle
    /\ UNCHANGED <<inst, handle, ctx, cancelled, freeCount>>

(* ---------------------------- specification --------------------------- *)
Next ==
    \/ \E api \in RequestedApis, name \in Names, limit \in {MaxQueue} :
          NewIn(api, name, limit)
    \/ \E api \in RequestedApis, name \in Names : NewOut(api, name)
    \/ current_api
    \/ Drop
    \/ \E n \in PortNumbers, name \in Names : open_port(n, name)
    \/ \E name \in Names : open_virtual_port(name)
    \/ close_port
    \/ port_count
    \/ \E n \in PortNumbers : port_name(n)
    \/ \E c \in Ctxs : set_callback(c)
    \/ cancel_callback
    \/ ignore_types(TRUE, FALSE, TRUE)
    \/ in_message
    \/ \E m \in OutMessages : out_message(m)
    \/ \E ts \in Timestamps, m \in Messages : Arrive(ts, m)
    \/ \E v \in AbiVersions : Invoke(v)

Spec == Init /\ [][Next]_vars

(* ------------------------------- claims ------------------------------- *)
\* the operations that read the status record after a native call
BridgeOps == {"in_new", "out_new", "open_port", "open_virtual_port",
              "close_port", "port_count", "port_name", "set_callback",
              "cancel_callback", "ignore_types", "in_message", "out_message"}

Bridged == last.op \in BridgeOps /\ last.calls # <<>>

LiveCtxs == {c \in Ctxs : ctx[c].alloc = "live"}

\* C1: a native instance that was created is owned by exactly one handle (the
\* one wrapping it), is freed exactly once and only by that handle's drop,
\* and no native call is made on an instance that is not live.
C1_ExclusiveOwnership ==
    /\ inst.life # "unalloc" =>
          /\ handle # "none"
          /\ (inst.life = "freed") <=> (handle = "dropped")
          /\ freeCount = IF handle = "dropped" THEN 1 ELSE 0
    /\ ~last.dangling

\* C2: no native instance is leaked: a live instance is held by a handle; in
\* particular, when a constructor has returned an error, the instance it
\* created is no longer live.
C2_NoLeak ==
    inst.life = "live" => handle = "held"

\* C3: with a message of n > 0 bytes pending, RtMidiIn::message returns Ok with
\* exactly those bytes and removes the message from the queue; the returned
\* vector is non-empty exactly when a message was retrieved.
C3_MessageReturnsPending ==
    (last.op = "in_message" /\ last.priorOk /\ ~last.nativeFail) =>
        /\ last.res.kind = "Ok"
        /\ last.hadPending =>
              /\ last.bytes = last.pending
              /\ Len(inst.queue) = last.qlen - 1
        /\ (last.bytes # <<>>) <=> last.hadPending

\* C4: set_callback on a handle whose callback is active first tears down the
\* prior registration (a native cancel before the native set), and when it
\* returns Ok the newly supplied closure is the registered one.
C4_ReRegisterTearsDown ==
    (last.op = "set_callback" /\ last.wasActive) =>
        /\ last.calls = <<"rtmidi_in_cancel_callback", "rtmidi_in_set_callback">>
        /\ last.res.kind = "Ok" => inst.cb = last.ctx

\* C5: after cancel_callback has returned Ok the context boxed by the preceding
\* set_callback is released, and a handle never has more than one live
\* callback context.
C5_ContextReclaimed ==
    /\ Cardinality(LiveCtxs) <= 1
    /\ (last.op = "cancel_callback" /\ last.wasActive /\ last.res.kind = "Ok")
          => ctx[last.ctx].alloc = "freed"

\* C6: a closure whose registration a cancel_callback has ended is never the
\* target of a message that arrives after that cancel returned: no delivery
\* starts for it, and none is invoked.
C6_NoInvocationAfterCancel ==
    /\ flight.busy => ~flight.late
    /\ last.op = "invoke" => ~last.late

\* C6 witness: a closure is invoked on a handle one of whose earlier closures
\* had been cancelled (set_callback(f1), cancel_callback, set_callback(f2),
\* then a message).
C6_Witness ==
    /\ last.op = "invoke"
    /\ \E c \in Ctxs : c # last.ctx /\ cancelled[c]

\* C7: whenever the native library holds a context pointer (registered in the
\* callback slot, or taken for a delivery in progress) the boxed closure is
\* still allocated, and every invocation finds it allocated.
C7_RegisteredContextAlive ==
    /\ inst.cb # 0 => ctx[inst.cb].alloc = "live"
    /\ flight.busy => ctx[flight.ctx].alloc = "live"
    /\ last.op = "invoke" => last.ctxAlloc = "live"

\* C7 witness: cancel_callback has returned while the native thread still
\* holds the cancelled context for a delivery in progress.
C7_Witness ==
    flight.busy /\ cancelled[flight.ctx]

\* the error of a status record that is not ok, spelled out
DecodedError(w) ==
    IF w.msg.null THEN [kind |-> "Error", text |-> InvalidError]
    ELSE IF Utf8Valid(w.msg.bytes) THEN [kind |-> "Error", text |-> w.msg.bytes]
    ELSE [kind |-> "Error", text |-> UnknownError]

\* C8 as stated: after its native call every fallible operation returns Ok
\* when the status record is ok, and otherwise Err(Error(m)) with m the decoded
\* message, "Invalid error" for a null pointer, "Unknown error" for bytes that
\* are not UTF-8.
C8_ResultFromStatus ==
    Bridged =>
        IF inst.status.ok THEN last.res.kind = "Ok"
        ELSE last.res = DecodedError(inst.status)

\* C8 amended: as stated, except that port_name, when the status is ok, returns
\* Err(NullPointer) for a null name pointer and Err(Utf8) for a name that is
\* not UTF-8.
C8_ResultFromStatusAmended ==
    Bridged =>
        IF ~inst.status.ok THEN last.res = DecodedError(inst.status)
        ELSE IF last.op # "port_name" THEN last.res.kind = "Ok"
        ELSE IF last.ptr.null THEN last.res.kind = "NullPointer"
        ELSE IF ~Utf8Valid(last.ptr.bytes) THEN last.res.kind = "Utf8"
        ELSE last.res.kind = "Ok"

\* C8 witness: an operation has returned "Unknown error" for a status message
\* that is not UTF-8.
C8_Witness ==
    /\ Bridged
    /\ ~inst.status.ok
    /\ ~inst.status.msg.null
    /\ ~Utf8Valid(inst.status.msg.bytes)
    /\ last.res.text = UnknownError

\* C9: an operation given a name with an embedded NUL byte returns NullString
\* and makes no native call: a constructor allocates no instance, and
\* open_port / open_virtual_port leave the native state as it was.
C9_NulRejected ==
    [][last'.nul =>
          /\ last'.res.kind = "NullString"
          /\ last'.calls = <<>>
          /\ inst' = inst /\ handle' = handle /\ ctx' = ctx
          /\ flight' = flight /\ freeCount' = freeCount]_vars

\* C9 witness: open_port with such a name has been rejected on a handle whose
\* port is open.
C9_Witness ==
    /\ last.op = "open_port" /\ last.nul
    /\ last.res.kind = "NullString"
    /\ inst.open

C11_SendNeedsOpenPort ==
    last.op = "out_message" =>
        /\ ~inst.open => last.res.kind # "Ok"
        /\ last.nativeFail => last.res.kind # "Ok"
        /\ last.res.kind = "Ok" => (inst.open /\ ~last.nativeFail)

\* C12: for every byte sequence passed to RtMidiOut::message the native send
\* call receives a (pointer, length) pair denoting exactly the same bytes:
\* the length is the sequence's length and the bytes are its bytes.
C12_SendRoundTrip ==
    last.op = "out_message" =>
        /\ last.sentLen >= 0
        /\ last.sentLen <= MaxI32
        /\ NativeSendBytes(last.sent, last.sentLen) = last.sent

\* C13: port_name returns, in this priority: the native error when the status
\* after the native call is not ok, whatever the returned pointer;
\* Err(NullPointer) when the status is ok and the pointer is null; Err(Utf8)
\* when the name is not valid text; otherwise Ok(name), so an empty name with
\* an ok status gives Ok("").
C13_PortNamePriority ==
    last.op = "port_name" =>
        IF ~inst.status.ok THEN last.res = DecodedError(inst.status)
        ELSE IF last.ptr.null THEN last.res = NullPointerRes
        ELSE IF ~Utf8Valid(last.ptr.bytes) THEN last.res = Utf8Res
        ELSE last.res = [kind |-> "Ok", text |-> last.ptr.bytes]

\* C13 witness: for the out-of-range index the library has returned an empty
\* name with an ok status, and port_name has returned Ok("").
C13_Witness ==
    /\ last.op = "port_name"
    /\ inst.status.ok
    /\ last.ptr = Ptr(<<>>)
    /\ last.res = [kind |-> "Ok", text |-> <<>>]

\* C14: on a constructed handle current_api returns a concrete backend, never
\* Unspecified (also when Unspecified was requested), and the same one after
\* any operations on the handle: no step changes the backend of a held
\* handle's instance, and every call returns the variant of that backend.
C14_CurrentApiFixed ==
    [][/\ (handle = "held" /\ handle' = "held") => inst'.api = inst.api
       /\ last'.op = "current_api" =>
             /\ last'.api \in RtMidiApis \ {"Unspecified"}
             /\ ApiAsU32(last'.api) = inst.api]_vars

\* C14 witness: current_api has returned LinuxALSA on a handle constructed
\* with Unspecified, after an operation on the handle had failed.
C14_Witness ==
    /\ last.op = "current_api"
    /\ last.api = "LinuxALSA"
    /\ ~inst.status.ok

\* C15: a failed operation does not poison the handle: an operation whose own
\* native call succeeds returns Ok, whatever earlier operations on the handle
\* returned (port_name aside, whose result also depends on the name pointer).
C15_NoStaleStatus ==
    (Bridged /\ last.op # "port_name" /\ ~last.nativeFail) =>
        last.res.kind = "Ok"

\* C16: each native invocation of the trampoline with (timestamp, data,
\* length, context) calls the closure of that context exactly once, with that
\* timestamp and the first `length` bytes of the native buffer (the first 3 in
\* the 3.x shape, which carries no length), and leaves the context allocated
\* and holding the same closure.
C16_TrampolineForwards ==
    last.op = "invoke" =>
        /\ Len(last.invoked) = 1
        /\ ctx[last.invoked[1].ctx].closure = last.ctx
        /\ last.invoked[1].ts = last.ts
        /\ last.invoked[1].bytes =
              SubSeq(last.buf, 1, IF last.abi = "v4_0_0" THEN Len(last.pending)
                                                         ELSE FixedLen)
        /\ ctx[last.ctx] = [alloc |-> "live", closure |-> last.ctx]

\* C16 witness: the 3.x trampoline has been called for a two-byte message and
\* has handed the closure three bytes of the native buffer.
C16_Witness ==
    /\ last.op = "invoke"
    /\ last.abi = "v3_0_0"
    /\ Len(last.pending) = 2
    /\ Len(last.invoked[1].bytes) = FixedLen

=============================================================================
